---------------------------- MODULE Spec2Model ----------------------------
(***************************************************************************)
(* PocketBench: the outcome analysis (MoveAnalyzer), the rolling move      *)
(* history with its rendering (GameContextManager) and the turn gate       *)
(* (TurnDetector) of src/PocketBench/turn_detection.py, over the data      *)
(* classes of src/PocketBench/models.py, and the turn loop of              *)
(* src/PocketBench/run_simulation.py driving execute_turn_with_analysis of *)
(* src/PocketBench/controller.py.                                          *)
(*                                                                         *)
(* Python values are encoded as follows.  An Optional value is a tuple:    *)
(* None is <<>>, a present integer v is <<v>>, a present pair (a, b) is    *)
(* <<a, b>>.  An object is a record of its attributes plus uid, the        *)
(* object's identity (Python's id()); hasattr(obj, name) is                *)
(* name \in DOMAIN obj.  Strings are built as the f-strings build them.    *)
(***************************************************************************)
EXTENDS Integers, Sequences, FiniteSets, TLC

VARIABLES
    max_history,        \* GameContextManager.max_history
    move_history,       \* GameContextManager.move_history
    outcome_history,    \* GameContextManager.outcome_history
    last_call,          \* the most recent call on the manager and what it returned
    n_added,            \* add_move_result calls since construction or the last clear_history
    next_uid,           \* identity of the next object constructed
    size_before_clear,  \* entries held when clear_history was last called, -1 once an add followed it (or before any clear)
    pre_shot,           \* the frame analyze_move_outcome is given as pre_shot_pil
    post_shot,          \* the frame analyze_move_outcome is given as post_shot_pil
    analysis,           \* what the call of analyze_move_outcome on (pre_shot, post_shot) did, once it ran
    check_pos,          \* the position _check_hit_near_opponent is given
    hit_check,          \* what the call of _check_hit_near_opponent did, once it ran
    detector_args,      \* the arguments TurnDetector was constructed with
    samples,            \* the frames handed to the detector so far
    quiet_run,          \* samples in a row, up to the latest, whose motion was below motion_threshold
    gate_call,          \* the most recent call on the detector and what it returned
    was_reset,          \* whether reset has been called on the detector
    wait_pc,            \* wait_for_turn_end_deprecated: the loop it is in
    pc,                 \* run(): the statement about to execute
    turn,               \* run(): iterations of the loop begun
    current_angle,      \* PocketTanksGameController.current_angle
    current_power,      \* PocketTanksGameController.current_power
    move_count,         \* PocketTanksGameController.move_count
    agent_move,         \* run(): the GameMove the agent returned
    turn_move_data,     \* run(): the MoveData of this iteration
    events,             \* the calls this iteration has completed, in order
    at_turn_start,\* the two histories when this iteration began
    completed,          \* whether the previous iteration reached add_move_result, and the uid it added
    fired_angle,        \* sum of angle_delta over the turns whose fire() returned
    fired_power         \* sum of power_delta over the turns whose fire() returned

storeVars == <<max_history, move_history, outcome_history, last_call, n_added,
               next_uid, size_before_clear>>

analyzerVars == <<pre_shot, post_shot, analysis>>

hitVars == <<check_pos, hit_check>>

gateVars == <<detector_args, samples, quiet_run, gate_call, was_reset, wait_pc>>

controllerVars == <<current_angle, current_power, move_count>>

turnVars == <<pc, turn, controllerVars, agent_move, turn_move_data, events,
              at_turn_start, completed, fired_angle, fired_power>>

vars == <<storeVars, analyzerVars, hitVars, gateVars, turnVars>>

\* no call of _check_hit_near_opponent on its own
NoHitCheck ==
    /\ check_pos = <<>>
    /\ hit_check = [done |-> FALSE]

\* no TurnDetector in use
NoDetector ==
    /\ detector_args = <<>>
    /\ samples = <<>>
    /\ quiet_run = 0
    /\ gate_call = [op |-> "none"]
    /\ was_reset = FALSE
    /\ wait_pc = "none"

\* no GameContextManager in use
NoStore ==
    /\ max_history = 0
    /\ move_history = <<>>
    /\ outcome_history = <<>>
    /\ last_call = [op |-> "__init__"]
    /\ n_added = 0
    /\ next_uid = 1
    /\ size_before_clear = -1

\* no controller running
NoRun ==
    /\ pc = "none"
    /\ turn = 0
    /\ current_angle = 0
    /\ current_power = 0
    /\ move_count = 0
    /\ agent_move = <<>>
    /\ turn_move_data = <<>>
    /\ events = <<>>
    /\ at_turn_start = <<>>
    /\ completed = <<>>
    /\ fired_angle = 0
    /\ fired_power = 0

-----------------------------------------------------------------------------
(* Bounds of the model. *)

\* largest max_history a manager is constructed with
MaxHistory == 4

\* objects (move, outcome pairs) constructed in one run
MaxAdds == 5

\* change blobs in one pair of frames
MaxBlobs == 2

\* frames handed to one TurnDetector
MaxSamples == 4

-----------------------------------------------------------------------------
(* Python helpers. *)

None == <<>>

Some(v) == <<v>>

Min(a, b) == IF a <= b THEN a ELSE b

Max(a, b) == IF a >= b THEN a ELSE b

\* str(x) of an Optional[int]
PyStrOptInt(x) == IF x = None THEN "None" ELSE ToString(x[1])

\* format(n, "+d")
FmtSigned(n) == IF n >= 0 THEN "+" \o ToString(n) ELSE ToString(n)

\* str(t) of a move_actions tuple (direction, steps)
PyStrActions(t) == "('" \o t[1] \o "', " \o ToString(t[2]) \o ")"

RECURSIVE JoinLines(_)
\* "\n".join(lines)
JoinLines(lines) ==
    IF lines = <<>> THEN ""
    ELSE IF Len(lines) = 1 THEN lines[1]
    ELSE lines[1] \o "\n" \o JoinLines(Tail(lines))

-----------------------------------------------------------------------------
(* models.py *)

\* MoveData(angle_delta, power_delta, move_actions, absolute_angle, absolute_power)
MoveData(uid, angle_delta, power_delta, move_actions, absolute_angle, absolute_power) ==
    [uid |-> uid, angle_delta |-> angle_delta, power_delta |-> power_delta,
     move_actions |-> move_actions, absolute_angle |-> absolute_angle,
     absolute_power |-> absolute_power]

\* GameMove: no absolute_angle / absolute_power attributes.  confidence is in percent.
GameMove(uid, angle_delta, power_delta, move_actions, reasoning, confidence) ==
    [uid |-> uid, angle_delta |-> angle_delta, power_delta |-> power_delta,
     move_actions |-> move_actions, reasoning |-> reasoning,
     confidence |-> confidence]

\* MoveOutcome(hit_detected=False, distance_result="unknown", impact_location=None)
MoveOutcome(uid, hit_detected, distance_result, impact_location) ==
    [uid |-> uid, hit_detected |-> hit_detected,
     distance_result |-> distance_result, impact_location |-> impact_location]

\* the moves a caller hands to add_move_result
MoveInputs(uid) ==
    { MoveData(uid, 5, -3, None, Some(65), Some(17)),
      MoveData(uid, -2, 0, <<"R", 2>>, None, None),
      GameMove(uid, 0, 4, <<"L", 1>>, "aim", 80) }

\* the outcomes a caller hands to add_move_result
OutcomeInputs(uid) ==
    { MoveOutcome(uid, TRUE, "hit", <<850, 560>>),
      MoveOutcome(uid, FALSE, "overshoot", <<950, 500>>),
      MoveOutcome(uid, TRUE, "near_miss", <<840, 100>>) }

-----------------------------------------------------------------------------
(* Frames.                                                                 *)
(*                                                                         *)
(* A frame is a grey raster (R = G = B, so the BGR2GRAY conversion of a    *)
(* difference is that difference) of width x height pixels: value 0        *)
(* everywhere except inside its blobs, filled axis-aligned rectangles      *)
(* [x, x+w) x [y, y+h) of value v.  The blobs of one (pre, post) pair are  *)
(* pairwise apart (no two overlap or touch), so each changed blob is one   *)
(* connected region of the difference image.                               *)
(***************************************************************************)

Blob(x, y, w, h, v) == [x |-> x, y |-> y, w |-> w, h |-> h, v |-> v]

\* the w x h blob whose contour's centroid is (cx, cy)
BlobAt(cx, cy, w, h, v) == Blob(cx - (w - 1) \div 2, cy - (h - 1) \div 2, w, h, v)

Frame(width, height, blobs) == [width |-> width, height |-> height, blobs |-> blobs]

BlankFrame == Frame(1000, 700, {})

NotAnalyzed == [done |-> FALSE]

\* two blobs neither overlap nor touch (8-connectivity)
Apart(a, b) ==
    \/ a.x + a.w < b.x
    \/ b.x + b.w < a.x
    \/ a.y + a.h < b.y
    \/ b.y + b.h < a.y

\* config.screenshot_region is (400, 100, 1000, 700); 1001 is a width that is
\* no multiple of 20
FrameSizes == { <<1000, 700>>, <<1001, 700>> }

\* what is on screen in both frames
Scenes == { {}, {Blob(0, 660, 1000, 40, 120)} }

\* what differs between the frames: explosions, craters, smoke
ChangeBlobs ==
    \* 11 x 11 explosions (contour area 100) across the tolerance band around x = 850
    { BlobAt(cx, 560, 11, 11, 200) : cx \in {799, 800, 850, 900, 901} }
    \* contour areas 99, 100, 101 and 16, far left
    \cup { BlobAt(300, 300, 10, 12, 200), BlobAt(300, 300, 11, 11, 200),
           BlobAt(300, 300, 102, 2, 200), BlobAt(300, 300, 5, 5, 200) }
    \* 300, 301 and 441 changed pixels inside the opponent window
    \cup { BlobAt(850, 520, 15, 20, 200), BlobAt(850, 520, 7, 43, 200),
           BlobAt(850, 600, 21, 21, 200) }
    \* faint changes: at and around the two thresholds 30 and 40
    \cup { BlobAt(830, 600, 20, 20, v) : v \in {30, 31, 40, 41} }
    \* a large change right of the band and one straddling the window's left edge
    \cup { BlobAt(960, 300, 30, 30, 200), BlobAt(770, 500, 40, 20, 200) }
    \* 441 changed pixels inside the opponent window, centred right of the band
    \cup { BlobAt(915, 560, 21, 21, 200) }

RECURSIVE BlobSets(_)
\* the sets of at most n change blobs that are pairwise apart
BlobSets(n) ==
    IF n = 0 THEN { {} }
    ELSE LET smaller == BlobSets(n - 1)
         IN smaller \cup
            UNION { { s \cup {b} : b \in { c \in ChangeBlobs : \A a \in s : Apart(a, c) } }
                    : s \in smaller }

\* the (pre, post) pairs: a scene common to both, and change blobs each in the
\* pre frame only (destroyed), in the post frame only (appeared) or in both
FramePairs ==
    LET splits == UNION { { <<in_pre, in_post>> : in_pre \in SUBSET s,
                                                   in_post \in SUBSET s }
                          : s \in BlobSets(MaxBlobs) }
    IN { <<Frame(size[1], size[2], scene \cup split[1]),
           Frame(size[1], size[2], scene \cup split[2])>> :
           size \in FrameSizes, scene \in Scenes, split \in splits }

\* pairs of frames of different sizes
MismatchedPairs ==
    LET sizes == FrameSizes \cup { <<1000, 600>> }
        size_pairs == { sp \in sizes \X sizes : sp[1] # sp[2] }
    IN { <<Frame(sp[1][1], sp[1][2], scene), Frame(sp[2][1], sp[2][2], scene \cup in_post)>> :
           sp \in size_pairs, scene \in Scenes, in_post \in BlobSets(1) }

-----------------------------------------------------------------------------
(* MoveAnalyzer *)

\* line 76: threshold of _find_impact_location
ImpactThreshold == 40

\* line 88: smallest contour area that counts
MinContourArea == 100

\* line 55: tolerance around the opponent's x
Tolerance == 50

\* line 105: margin of the window around the opponent
Margin == 80

\* line 127: threshold of _check_hit_near_opponent
HitThreshold == 30

\* line 131: changed pixels a hit needs more than
HitPixels == 300

\* mutant: the post frame taken for the difference
AbsDiff_PostOnly(pre_frame, post_frame) == post_frame.blobs

\* cv2.absdiff then cvtColor(BGR2GRAY): the regions whose value differs, each
\* with the absolute difference (a blob is on value 0 in the other frame)
AbsDiff(pre_frame, post_frame) ==
    (pre_frame.blobs \ post_frame.blobs) \cup (post_frame.blobs \ pre_frame.blobs)

\* cv2.threshold(..., THRESH_BINARY): the regions strictly above thresh
Threshold(gray_diff, thresh) == { b \in gray_diff : b.v > thresh }

\* cv2.contourArea of a filled rectangle's outer contour: the polygon through
\* the centres of its corner pixels
contourArea(contour) == (contour.w - 1) * (contour.h - 1)

\* lines 96-97: int(m10 / m00), int(m01 / m00) of that polygon
Centroid(contour) ==
    << (2 * contour.x + contour.w - 1) \div 2,
       (2 * contour.y + contour.h - 1) \div 2 >>

\* line 85: max(contours, key=cv2.contourArea) returns a contour of largest
\* area; which one among equals depends on the order findContours lists them
LargestContours(contours) ==
    { c \in contours : \A d \in contours : contourArea(d) <= contourArea(c) }

\* mutant: <= in place of < in the area test
ImpactOf_Strict(largest_contour) ==
    IF contourArea(largest_contour) <= MinContourArea THEN None
    ELSE Centroid(largest_contour)

\* lines 87-99, for the contour chosen as largest
ImpactOf(largest_contour) ==
    IF contourArea(largest_contour) < MinContourArea THEN None
    ELSE IF contourArea(largest_contour) = 0 THEN None
    ELSE Centroid(largest_contour)

\* lines 68-99: the values _find_impact_location can return
_find_impact_location(pre_frame, post_frame) ==
    LET thresh == Threshold(AbsDiff(pre_frame, post_frame), ImpactThreshold)
        contours == thresh
    IN IF contours = {} THEN { None }
       ELSE { ImpactOf(c) : c \in LargestContours(contours) }

\* pixels of region b inside the crop [x1, x2) x [y1, y2)
PixelsIn(b, x1, x2, y1, y2) ==
    Max(0, Min(b.x + b.w, x2) - Max(b.x, x1))
        * Max(0, Min(b.y + b.h, y2) - Max(b.y, y1))

RECURSIVE countNonZero(_, _, _, _, _)
\* cv2.countNonZero of the thresholded crop
countNonZero(thresh, x1, x2, y1, y2) ==
    IF thresh = {} THEN 0
    ELSE LET b == CHOOSE c \in thresh : TRUE
         IN PixelsIn(b, x1, x2, y1, y2)
                + countNonZero(thresh \ {b}, x1, x2, y1, y2)

\* the indices start:stop selects along an axis of length n (Python slicing):
\* a negative index counts from the end, and both are clamped to [0, n]
PySlice(start, stop, n) ==
    LET from_end(i) == IF i < 0 THEN Max(0, i + n) ELSE Min(i, n)
    IN << from_end(start), from_end(stop) >>

\* lines 108-113: the corners of the window as the code computes them
CropCorners(width, height, opponent_pos) ==
    LET ox == opponent_pos[1]
        oy == opponent_pos[2]
    IN [x1 |-> Max(0, ox - Margin), x2 |-> Min(width, ox + Margin),
        y1 |-> Max(0, oy - Margin), y2 |-> Min(height, oy + Margin)]

\* mutant: the crop thresholded at the level of _find_impact_location
_check_hit_near_opponent_At40(pre_frame, post_frame, opponent_pos) ==
    LET corners == CropCorners(pre_frame.width, pre_frame.height, opponent_pos)
        cols == PySlice(corners.x1, corners.x2, pre_frame.width)
        rows == PySlice(corners.y1, corners.y2, pre_frame.height)
        empty_crop == cols[2] <= cols[1] \/ rows[2] <= rows[1]
        thresh == Threshold(AbsDiff(pre_frame, post_frame), ImpactThreshold)
        changed_pixels == countNonZero(thresh, cols[1], cols[2], rows[1], rows[2])
    IN IF empty_crop THEN FALSE ELSE changed_pixels > HitPixels

\* lines 101-131.  The crops are numpy slices frame[y1:y2, x1:x2] (lines
\* 116-117); size == 0 (line 119) when either axis selects nothing.
_check_hit_near_opponent(pre_frame, post_frame, opponent_pos) ==
    LET corners == CropCorners(pre_frame.width, pre_frame.height, opponent_pos)
        cols == PySlice(corners.x1, corners.x2, pre_frame.width)
        rows == PySlice(corners.y1, corners.y2, pre_frame.height)
        empty_crop == cols[2] <= cols[1] \/ rows[2] <= rows[1]
        thresh == Threshold(AbsDiff(pre_frame, post_frame), HitThreshold)
        changed_pixels == countNonZero(thresh, cols[1], cols[2], rows[1], rows[2])
    IN IF empty_crop THEN FALSE ELSE changed_pixels > HitPixels

\* line 50: int(width * 0.85)
OpponentX(width) == (85 * width) \div 100

\* line 62: int(height * 0.8)
OpponentY(height) == (8 * height) \div 10

\* mutant: distance_result not set when the hit check fails
OutcomeFor_NoNearMiss(pre_frame, post_frame, impact_pos, uid) ==
    IF impact_pos = None
    THEN [outcome |-> MoveOutcome(uid, FALSE, "unknown", None),
          hit_checked |-> FALSE, hit_reported |-> FALSE]
    ELSE LET opponent_x == OpponentX(pre_frame.width)
             impact_x == impact_pos[1]
             hit == _check_hit_near_opponent(pre_frame, post_frame,
                        <<opponent_x, OpponentY(pre_frame.height)>>)
         IN IF impact_x > opponent_x + Tolerance
            THEN [outcome |-> MoveOutcome(uid, FALSE, "overshoot", impact_pos),
                  hit_checked |-> FALSE, hit_reported |-> FALSE]
            ELSE IF impact_x < opponent_x - Tolerance
            THEN [outcome |-> MoveOutcome(uid, FALSE, "undershoot", impact_pos),
                  hit_checked |-> FALSE, hit_reported |-> FALSE]
            ELSE [outcome |-> MoveOutcome(uid, hit,
                                  IF hit THEN "hit" ELSE "unknown", impact_pos),
                  hit_checked |-> TRUE, hit_reported |-> hit]

\* mutant: >= in place of > in the overshoot test
OutcomeFor_OvershootAtEdge(pre_frame, post_frame, impact_pos, uid) ==
    IF impact_pos = None
    THEN [outcome |-> MoveOutcome(uid, FALSE, "unknown", None),
          hit_checked |-> FALSE, hit_reported |-> FALSE]
    ELSE LET opponent_x == OpponentX(pre_frame.width)
             impact_x == impact_pos[1]
             hit == _check_hit_near_opponent(pre_frame, post_frame,
                        <<opponent_x, OpponentY(pre_frame.height)>>)
         IN IF impact_x >= opponent_x + Tolerance
            THEN [outcome |-> MoveOutcome(uid, FALSE, "overshoot", impact_pos),
                  hit_checked |-> FALSE, hit_reported |-> FALSE]
            ELSE IF impact_x < opponent_x - Tolerance
            THEN [outcome |-> MoveOutcome(uid, FALSE, "undershoot", impact_pos),
                  hit_checked |-> FALSE, hit_reported |-> FALSE]
            ELSE [outcome |-> MoveOutcome(uid, hit,
                                  IF hit THEN "hit" ELSE "near_miss", impact_pos),
                  hit_checked |-> TRUE, hit_reported |-> hit]

\* lines 39-66 once _find_impact_location returned impact_pos: the outcome, and
\* whether _check_hit_near_opponent was called and what it returned
OutcomeFor(pre_frame, post_frame, impact_pos, uid) ==
    IF impact_pos = None
    THEN [outcome |-> MoveOutcome(uid, FALSE, "unknown", None),
          hit_checked |-> FALSE, hit_reported |-> FALSE]
    ELSE LET opponent_x == OpponentX(pre_frame.width)
             impact_x == impact_pos[1]
             hit == _check_hit_near_opponent(pre_frame, post_frame,
                        <<opponent_x, OpponentY(pre_frame.height)>>)
         IN IF impact_x > opponent_x + Tolerance
            THEN [outcome |-> MoveOutcome(uid, FALSE, "overshoot", impact_pos),
                  hit_checked |-> FALSE, hit_reported |-> FALSE]
            ELSE IF impact_x < opponent_x - Tolerance
            THEN [outcome |-> MoveOutcome(uid, FALSE, "undershoot", impact_pos),
                  hit_checked |-> FALSE, hit_reported |-> FALSE]
            ELSE [outcome |-> MoveOutcome(uid, hit,
                                  IF hit THEN "hit" ELSE "near_miss", impact_pos),
                  hit_checked |-> TRUE, hit_reported |-> hit]

\* numpy shapes of the two arrays agree
SameShape(pre_frame, post_frame) ==
    /\ pre_frame.width = post_frame.width
    /\ pre_frame.height = post_frame.height

\* mutant: a failing difference turned into the default outcome
AnalyzeMoveOutcome_DefaultOnError(pre_frame, post_frame, uid) ==
    IF ~SameShape(pre_frame, post_frame)
    THEN { [raised |-> FALSE, outcome |-> MoveOutcome(uid, FALSE, "unknown", None),
            hit_checked |-> FALSE, hit_reported |-> FALSE] }
    ELSE { [raised |-> FALSE] @@ OutcomeFor(pre_frame, post_frame, impact_pos, uid) :
               impact_pos \in _find_impact_location(pre_frame, post_frame) }

\* lines 32-66: what a call can do.  cv2.absdiff (line 72) raises cv2.error
\* on arrays of different shapes, and nothing in between catches it.
AnalyzeMoveOutcome(pre_frame, post_frame, uid) ==
    IF ~SameShape(pre_frame, post_frame)
    THEN { [raised |-> TRUE, error |-> "cv2.error"] }
    ELSE { [raised |-> FALSE] @@ OutcomeFor(pre_frame, post_frame, impact_pos, uid) :
               impact_pos \in _find_impact_location(pre_frame, post_frame) }

\* a MoveAnalyzer and the two screenshots it is about to be given
AnalyzerInit ==
    /\ \E pair \in FramePairs \cup MismatchedPairs :
           pre_shot = pair[1] /\ post_shot = pair[2]
    /\ analysis = NotAnalyzed
    /\ max_history = 0
    /\ move_history = <<>>
    /\ outcome_history = <<>>
    /\ last_call = [op |-> "__init__"]
    /\ n_added = 0
    /\ next_uid = 1
    /\ size_before_clear = -1
    /\ NoHitCheck
    /\ NoDetector
    /\ NoRun

analyze_move_outcome ==
    /\ ~analysis.done
    /\ \E did \in AnalyzeMoveOutcome(pre_shot, post_shot, next_uid) :
           analysis' = [done |-> TRUE] @@ did
    /\ UNCHANGED <<pre_shot, post_shot, storeVars, hitVars, gateVars, turnVars>>

AnalyzerNext == analyze_move_outcome

SpecAnalyzer == AnalyzerInit /\ [][AnalyzerNext]_vars

-----------------------------------------------------------------------------
(* MoveAnalyzer._check_hit_near_opponent called on its own *)

\* positions in, at the edges of and off a frame
HitPositions ==
    { <<ox, oy>> : ox \in {-100, 0, 40, 850, 1000, 1100},
                   oy \in {-100, 560, 700, 800} }

\* pairs of frames of one size, the second with changes the first lacks
HitPairs ==
    { <<Frame(size[1], size[2], scene), Frame(size[1], size[2], scene \cup in_post)>> :
          size \in FrameSizes, scene \in Scenes, in_post \in BlobSets(MaxBlobs) }

HitInit ==
    /\ \E pair \in HitPairs : pre_shot = pair[1] /\ post_shot = pair[2]
    /\ analysis = NotAnalyzed
    /\ check_pos \in HitPositions
    /\ hit_check = [done |-> FALSE]
    /\ NoStore
    /\ NoDetector
    /\ NoRun

check_hit_near_opponent ==
    /\ ~hit_check.done
    /\ hit_check' = [done |-> TRUE, raised |-> FALSE,
                     hit |-> _check_hit_near_opponent(pre_shot, post_shot, check_pos)]
    /\ UNCHANGED <<check_pos, analyzerVars, storeVars, gateVars, turnVars>>

HitNext == check_hit_near_opponent

SpecHitCheck == HitInit /\ [][HitNext]_vars

-----------------------------------------------------------------------------
(* TurnDetector *)

\* the arguments of the constructor: its defaults (line 10), the values the
\* controller passes (controller.py line 44), and a short stable_frames
DetectorArgs ==
    { [motion_threshold |-> t, stable_frames |-> n, fps |-> 5] :
          t \in {1000, 15000000}, n \in {2, 20} }

\* what the screen shows when sampled: nothing, a small explosion, a flash
\* over the left half
GateFrames ==
    { Frame(1000, 700, {}),
      Frame(1000, 700, {BlobAt(850, 560, 11, 11, 200)}),
      Frame(1000, 700, {Blob(0, 0, 500, 700, 100)}) }

RECURSIVE SumOfDifferences(_)
\* the absolute differences of a difference image summed over its pixels
SumOfDifferences(gray_diff) ==
    IF gray_diff = {} THEN 0
    ELSE LET b == CHOOSE c \in gray_diff : TRUE
         IN b.w * b.h * b.v + SumOfDifferences(gray_diff \ {b})

\* the motion between two successive samples
Motion(prev_frame, frame_bgr) == SumOfDifferences(AbsDiff(prev_frame, frame_bgr))

\* samples in a row below the threshold once frame_bgr has been sampled
QuietRunAfter(frame_bgr) ==
    IF samples # <<>>
       /\ Motion(samples[Len(samples)], frame_bgr) < detector_args.motion_threshold
    THEN quiet_run + 1
    ELSE 0

\* mutant: the turn reported finished on a still frame only
TurnFinished_OnStillFrame(frame_bgr) == frame_bgr.blobs = {}

\* lines 18-20: is_turn_finished returns True
TurnFinished(frame_bgr) == TRUE

\* mutant: our turn while something shows on the screen
OurTurn_WhileShown(frame_bgr) == frame_bgr.blobs # {}

\* lines 14-16: is_our_turn returns True
OurTurn(frame_bgr) == TRUE

\* lines 10-12: the constructor stores none of its arguments
GateInit ==
    /\ detector_args \in DetectorArgs
    /\ samples = <<>>
    /\ quiet_run = 0
    /\ gate_call = [op |-> "__init__"]
    /\ was_reset = FALSE
    /\ wait_pc = "idle"
    /\ pre_shot = BlankFrame
    /\ post_shot = BlankFrame
    /\ analysis = NotAnalyzed
    /\ NoStore
    /\ NoHitCheck
    /\ NoRun

is_turn_finished ==
    /\ wait_pc = "idle"
    /\ Len(samples) < MaxSamples
    /\ \E frame_bgr \in GateFrames :
           /\ samples' = Append(samples, frame_bgr)
           /\ quiet_run' = QuietRunAfter(frame_bgr)
           /\ gate_call' = [op |-> "is_turn_finished",
                            returned |-> TurnFinished(frame_bgr)]
    /\ UNCHANGED <<detector_args, was_reset, wait_pc, analyzerVars, storeVars,
                   hitVars, turnVars>>

is_our_turn ==
    /\ wait_pc = "idle"
    /\ Len(samples) < MaxSamples
    /\ \E frame_bgr \in GateFrames :
           /\ samples' = Append(samples, frame_bgr)
           /\ quiet_run' = QuietRunAfter(frame_bgr)
           /\ gate_call' = [op |-> "is_our_turn", returned |-> OurTurn(frame_bgr)]
    /\ UNCHANGED <<detector_args, was_reset, wait_pc, analyzerVars, storeVars,
                   hitVars, turnVars>>

\* lines 22-24: a no-op; a detector that counted would start over
reset ==
    /\ wait_pc = "idle"
    /\ gate_call' = [op |-> "reset"]
    /\ quiet_run' = 0
    /\ was_reset' = TRUE
    /\ UNCHANGED <<detector_args, samples, wait_pc, analyzerVars, storeVars,
                   hitVars, turnVars>>

\* controller.py lines 160-165: wait_for_turn_end_deprecated is entered
wait_for_turn_end_deprecated ==
    /\ wait_pc = "idle"
    /\ wait_pc' = "our_turn_ends"
    /\ UNCHANGED <<detector_args, samples, quiet_run, gate_call, was_reset,
                   analyzerVars, storeVars, hitVars, turnVars>>

\* where one pass of a polling loop leaves the method: the first loop
\* (lines 166-173) breaks when is_our_turn is false, the second (lines
\* 179-186) when it is true, and the method returns after it (line 188)
AfterPoll(loop, our_turn) ==
    IF loop = "our_turn_ends"
    THEN IF ~our_turn THEN "our_turn_returns" ELSE "our_turn_ends"
    ELSE IF our_turn THEN "returned" ELSE "our_turn_returns"

\* controller.py lines 167-173 and 180-186: a screenshot, is_our_turn on
\* it, and the break or the sleep
poll_is_our_turn ==
    /\ wait_pc \in {"our_turn_ends", "our_turn_returns"}
    /\ Len(samples) < MaxSamples
    /\ \E frame_bgr \in GateFrames :
           /\ samples' = Append(samples, frame_bgr)
           /\ quiet_run' = QuietRunAfter(frame_bgr)
           /\ gate_call' = [op |-> "is_our_turn", returned |-> OurTurn(frame_bgr)]
           /\ wait_pc' = AfterPoll(wait_pc, OurTurn(frame_bgr))
    /\ UNCHANGED <<detector_args, was_reset, analyzerVars, storeVars, hitVars,
                   turnVars>>

GateNext ==
    \/ is_turn_finished
    \/ is_our_turn
    \/ reset
    \/ wait_for_turn_end_deprecated
    \/ poll_is_our_turn

SpecGate == GateInit /\ [][GateNext]_vars

-----------------------------------------------------------------------------
(* GameContextManager *)

Sentinel == "No previous moves to reference."

Header == "Recent moves:\n"

\* the number of entries get_context_string renders at most
RecentLimit == 3

\* line 169: the description with absolute values
AbsoluteDesc(move) ==
    "angle=" \o PyStrOptInt(move.absolute_angle)
        \o " (Δ" \o FmtSigned(move.angle_delta) \o "), power="
        \o PyStrOptInt(move.absolute_power)
        \o " (Δ" \o FmtSigned(move.power_delta) \o ")"

\* line 171: the delta-only description
DeltaDesc(move) ==
    "angle_delta=" \o ToString(move.angle_delta)
        \o ", power_delta=" \o ToString(move.power_delta)

\* lines 173-174: the move actions appended when present
ActionsSuffix(move) ==
    IF "move_actions" \in DOMAIN move /\ move.move_actions # <<>>
    THEN ", move=" \o PyStrActions(move.move_actions)
    ELSE ""

\* lines 168-174
MoveDesc(move) ==
    (IF "absolute_angle" \in DOMAIN move /\ "absolute_power" \in DOMAIN move
     THEN AbsoluteDesc(move)
     ELSE DeltaDesc(move)) \o ActionsSuffix(move)

\* mutant: the label decided by distance_result
ResultLabel_ByDistance(outcome) ==
    IF outcome.distance_result = "hit" THEN "HIT"
    ELSE "MISS (" \o outcome.distance_result \o ")"

\* lines 177-180
ResultLabel(outcome) ==
    IF outcome.hit_detected THEN "HIT"
    ELSE "MISS (" \o outcome.distance_result \o ")"

\* One pass of the loop body, lines 164-183, for loop index i (0-based).  The
\* record keeps the interpolated parts of context_line and which objects it
\* was rendered from.
ContextLine(moves, outcomes, recent_moves, i) ==
    LET move == moves[Len(moves) - i]
        outcome == outcomes[Len(outcomes) - i]
        move_desc == MoveDesc(move)
        result == ResultLabel(outcome)
    IN [number |-> recent_moves - i,
        move_desc |-> move_desc,
        result |-> result,
        text |-> "Move " \o ToString(recent_moves - i) \o ": " \o move_desc
                     \o " → " \o result,
        move_uid |-> move.uid,
        outcome_uid |-> outcome.uid]

\* mutant: the loop walks the lists from the front
ContextLines_OldestFirst(moves, outcomes) ==
    LET recent_moves == Min(RecentLimit, Len(outcomes))
    IN [j \in 1..recent_moves |->
           ContextLine(moves, outcomes, recent_moves, Len(outcomes) - j)]

\* lines 158-183: context_lines after the loop
ContextLines(moves, outcomes) ==
    LET recent_moves == Min(RecentLimit, Len(outcomes))
    IN [j \in 1..recent_moves |-> ContextLine(moves, outcomes, recent_moves, j - 1)]

\* lines 151-188: the returned string
ContextString(moves, outcomes) ==
    IF outcomes = <<>> THEN Sentinel
    ELSE LET lines == ContextLines(moves, outcomes)
         IN Header \o JoinLines([j \in 1..Len(lines) |-> lines[j].text])

\* mutant: pop() in place of pop(0)
HistoriesAfterAdd_PopNewest(moves, outcomes, move_data, outcome, limit) ==
    LET moves1 == Append(moves, move_data)
        outcomes1 == Append(outcomes, outcome)
    IN IF Len(moves1) > limit
       THEN [moves |-> moves, outcomes |-> outcomes]
       ELSE [moves |-> moves1, outcomes |-> outcomes1]

\* mutant: the eviction forgotten
HistoriesAfterAdd_NoEviction(moves, outcomes, move_data, outcome, limit) ==
    [moves |-> Append(moves, move_data), outcomes |-> Append(outcomes, outcome)]

\* mutant: >= in place of > in the capacity test
HistoriesAfterAdd_EvictAtLimit(moves, outcomes, move_data, outcome, limit) ==
    LET moves1 == Append(moves, move_data)
        outcomes1 == Append(outcomes, outcome)
    IN IF Len(moves1) >= limit
       THEN [moves |-> Tail(moves1), outcomes |-> Tail(outcomes1)]
       ELSE [moves |-> moves1, outcomes |-> outcomes1]

\* lines 143-149: the two lists after add_move_result
HistoriesAfterAdd(moves, outcomes, move_data, outcome, limit) ==
    LET moves1 == Append(moves, move_data)
        outcomes1 == Append(outcomes, outcome)
    IN IF Len(moves1) > limit
       THEN [moves |-> Tail(moves1), outcomes |-> Tail(outcomes1)]
       ELSE [moves |-> moves1, outcomes |-> outcomes1]

\* GameContextManager(max_history)
StoreInit ==
    /\ pre_shot = BlankFrame
    /\ post_shot = BlankFrame
    /\ analysis = NotAnalyzed
    /\ max_history \in 0..MaxHistory
    /\ move_history = <<>>
    /\ outcome_history = <<>>
    /\ last_call = [op |-> "__init__"]
    /\ n_added = 0
    /\ next_uid = 1
    /\ size_before_clear = -1
    /\ NoHitCheck
    /\ NoDetector
    /\ NoRun

add_move_result(move_data, outcome) ==
    /\ LET after == HistoriesAfterAdd(move_history, outcome_history,
                                      move_data, outcome, max_history)
       IN /\ move_history' = after.moves
          /\ outcome_history' = after.outcomes
    /\ last_call' = [op |-> "add_move_result"]
    /\ n_added' = n_added + 1
    /\ next_uid' = next_uid + 1
    /\ size_before_clear' = -1
    /\ UNCHANGED <<max_history, analyzerVars, hitVars, gateVars, turnVars>>

get_context_string ==
    /\ last_call' =
           [op |-> "get_context_string",
            context |-> ContextString(move_history, outcome_history),
            context_lines |-> IF outcome_history = <<>> THEN <<>>
                              ELSE ContextLines(move_history, outcome_history)]
    /\ UNCHANGED <<max_history, move_history, outcome_history, n_added,
                   next_uid, size_before_clear, analyzerVars, hitVars, gateVars, turnVars>>

\* mutant: only the oldest entry dropped
clear_history_DropsOne ==
    /\ move_history' = IF move_history = <<>> THEN <<>> ELSE Tail(move_history)
    /\ outcome_history' = IF outcome_history = <<>> THEN <<>> ELSE Tail(outcome_history)
    /\ last_call' = [op |-> "clear_history"]
    /\ n_added' = 0
    /\ size_before_clear' = Len(move_history)
    /\ UNCHANGED <<max_history, next_uid, analyzerVars, hitVars, gateVars, turnVars>>

clear_history ==
    /\ move_history' = <<>>
    /\ outcome_history' = <<>>
    /\ last_call' = [op |-> "clear_history"]
    /\ n_added' = 0
    /\ size_before_clear' = Len(move_history)
    /\ UNCHANGED <<max_history, next_uid, analyzerVars, hitVars, gateVars, turnVars>>

\* a caller constructs a move and an outcome and stores them
AddCall ==
    /\ next_uid <= MaxAdds
    /\ \E move_data \in MoveInputs(next_uid), outcome \in OutcomeInputs(next_uid) :
           add_move_result(move_data, outcome)

StoreNext == AddCall \/ get_context_string \/ clear_history

SpecStore == StoreInit /\ [][StoreNext]_vars

-----------------------------------------------------------------------------
(* run() of run_simulation.py driving one PocketTanksGameController.        *)
(*                                                                         *)
(* pc names the statement about to execute.  A call into pyautogui, the    *)
(* game or the agent either returns or raises; an exception raised inside  *)
(* the try of lines 34-39 reaches its except clause, one raised outside it *)
(* ends run().  Objects are held by reference: an assignment to an         *)
(* attribute shows in every list that holds the object (same uid).         *)
(***************************************************************************)

\* run_simulation.py line 26: range(10)
Turns == 10

\* iterations of the loop that are followed: range(10) is cut short there
MaxTurns == 6

\* turn_detection.py line 136: max_history of GameContextManager()
DefaultMaxHistory == 5

\* controller.py line 49
StartAngle == 60

\* controller.py line 50
StartPower == 20

\* the moves the agent answers with
AgentMoves ==
    { GameMove(0, 5, -3, None, "raise the barrel", 80),
      GameMove(0, -2, 10, <<"R", 2>>, "closer and harder", 60) }

\* a frame with 441 changed pixels at the opponent estimate
HitFrame == Frame(1000, 700, {BlobAt(850, 600, 21, 21, 200)})

\* a capture cut off at the edge of the screen
ClippedFrame == Frame(1000, 600, {})

\* what take_game_screenshot returns before the shot: the region of
\* config.screenshot_region
ScreenBefore == { BlankFrame }

\* what it returns once the turn cycle is over
ScreenAfter == { HitFrame, ClippedFrame }

\* the locals of execute_turn_with_analysis are gone once it is left
LocalsDropped ==
    /\ pre_shot' = BlankFrame
    /\ post_shot' = BlankFrame
    /\ analysis' = NotAnalyzed

\* an assignment to attributes of the object obj_now as seen through a list
\* that may hold the object
Aliased(history, obj_now) ==
    [i \in DOMAIN history |->
        IF history[i].uid = obj_now.uid THEN obj_now ELSE history[i]]

\* the calls of one completed iteration, in order
Log(event) == Append(events, event)

AtTurnStart ==
    [moves |-> move_history, outcomes |-> outcome_history,
     current_angle |-> current_angle, current_power |-> current_power,
     move_count |-> move_count]

\* lines 20-24: the controller constructed (controller.py lines 39-55)
RunInit ==
    /\ pc = "for"
    /\ turn = 0
    /\ current_angle = StartAngle
    /\ current_power = StartPower
    /\ move_count = 0
    /\ agent_move = <<>>
    /\ turn_move_data = <<>>
    /\ events = <<>>
    /\ at_turn_start = <<>>
    /\ completed = <<>>
    /\ fired_angle = 0
    /\ fired_power = 0
    /\ max_history = DefaultMaxHistory
    /\ move_history = <<>>
    /\ outcome_history = <<>>
    /\ last_call = [op |-> "__init__"]
    /\ n_added = 0
    /\ next_uid = 1
    /\ size_before_clear = -1
    /\ pre_shot = BlankFrame
    /\ post_shot = BlankFrame
    /\ analysis = NotAnalyzed
    /\ NoHitCheck
    /\ NoDetector

\* what no step of the loop touches
Untouched == <<max_history, size_before_clear, hitVars, gateVars>>

\* line 26: the next iteration begins, or the loop is over
for_next ==
    /\ pc = "for"
    /\ IF turn < Min(Turns, MaxTurns)
       THEN /\ turn' = turn + 1
            /\ pc' = "take_game_screenshot"
            /\ events' = <<>>
            /\ at_turn_start' = AtTurnStart
            /\ LocalsDropped
       ELSE /\ pc' = "returned"
            /\ UNCHANGED <<turn, events, at_turn_start, analyzerVars>>
    /\ UNCHANGED <<controllerVars, agent_move, turn_move_data, completed,
                   fired_angle, fired_power, move_history, outcome_history,
                   last_call, next_uid, n_added, Untouched>>

\* line 27, outside the try
take_game_screenshot ==
    /\ pc = "take_game_screenshot"
    /\ \/ /\ pc' = "get_context_for_agent"
          /\ events' = Log("take_game_screenshot")
       \/ /\ pc' = "crashed"
          /\ events' = Log("raise")
    /\ UNCHANGED <<turn, controllerVars, agent_move, turn_move_data,
                   at_turn_start, completed, fired_angle, fired_power,
                   move_history, outcome_history, last_call, next_uid,
                   analyzerVars, n_added, Untouched>>

\* line 29, controller.py lines 190-194
get_context_for_agent ==
    /\ pc = "get_context_for_agent"
    /\ last_call' =
           [op |-> "get_context_string",
            context |-> ContextString(move_history, outcome_history),
            context_lines |-> IF outcome_history = <<>> THEN <<>>
                              ELSE ContextLines(move_history, outcome_history)]
    /\ pc' = "get_move"
    /\ events' = Log("get_context_string")
    /\ UNCHANGED <<turn, controllerVars, agent_move, turn_move_data,
                   at_turn_start, completed, fired_angle, fired_power,
                   move_history, outcome_history, next_uid, analyzerVars,
                   n_added, Untouched>>

\* line 31, outside the try
get_move ==
    /\ pc = "get_move"
    /\ \/ /\ agent_move' \in AgentMoves
          /\ pc' = "MoveData"
          /\ events' = Log("get_move")
       \/ /\ pc' = "crashed"
          /\ events' = Log("raise")
          /\ UNCHANGED agent_move
    /\ UNCHANGED <<turn, controllerVars, turn_move_data, at_turn_start,
                   completed, fired_angle, fired_power, move_history,
                   outcome_history, last_call, next_uid, analyzerVars,
                   n_added, Untouched>>

\* mutant: one MoveData object filled in anew at each iteration
construct_MoveData_Reused ==
    /\ pc = "MoveData"
    /\ turn_move_data' =
           MoveData(IF move_history = <<>> THEN next_uid
                    ELSE move_history[Len(move_history)].uid,
                    agent_move.angle_delta, agent_move.power_delta,
                    agent_move.move_actions, None, None)
    /\ move_history' = Aliased(move_history, turn_move_data')
    /\ next_uid' = next_uid + 1
    /\ pc' = "execute_turn_with_analysis"
    /\ events' = Log("MoveData")
    /\ UNCHANGED <<turn, controllerVars, agent_move, at_turn_start,
                   completed, fired_angle, fired_power, outcome_history,
                   last_call, analyzerVars, n_added, Untouched>>

\* line 35, the first statement of the try: a new MoveData
construct_MoveData ==
    /\ pc = "MoveData"
    /\ turn_move_data' = MoveData(next_uid, agent_move.angle_delta,
                                  agent_move.power_delta, agent_move.move_actions,
                                  None, None)
    /\ move_history' = Aliased(move_history, turn_move_data')
    /\ next_uid' = next_uid + 1
    /\ pc' = "execute_turn_with_analysis"
    /\ events' = Log("MoveData")
    /\ UNCHANGED <<turn, controllerVars, agent_move, at_turn_start,
                   completed, fired_angle, fired_power, outcome_history,
                   last_call, analyzerVars, n_added, Untouched>>

\* controller.py lines 112-120: the count, and the absolute values written
\* into move_data
begin_turn ==
    /\ pc = "execute_turn_with_analysis"
    /\ move_count' = move_count + 1
    /\ turn_move_data' =
           [turn_move_data EXCEPT
               !.absolute_angle = Some(current_angle + turn_move_data.angle_delta),
               !.absolute_power = Some(current_power + turn_move_data.power_delta)]
    /\ move_history' = Aliased(move_history, turn_move_data')
    /\ pc' = "pre_shot"
    /\ UNCHANGED <<turn, current_angle, current_power, agent_move, events,
                   at_turn_start, completed, fired_angle, fired_power,
                   outcome_history, last_call, next_uid, analyzerVars,
                   n_added, Untouched>>

\* a call inside the try raised: control goes to line 37
Raised ==
    /\ pc' = "except"
    /\ events' = Log("raise")

\* the parts of the state a step of actuation or a wait leaves alone
ActuationFrame ==
    <<turn, move_count, agent_move, turn_move_data, at_turn_start,
      completed, move_history, outcome_history, last_call, next_uid,
      analyzerVars, n_added, Untouched>>

\* controller.py lines 125-126: take_game_screenshot, save_debug_photo
capture_pre_shot ==
    /\ pc = "pre_shot"
    /\ \/ /\ pre_shot' \in ScreenBefore
          /\ pc' = "set_angle"
          /\ events' = Log("pre_shot")
       \/ /\ Raised
          /\ UNCHANGED pre_shot
    /\ UNCHANGED <<turn, controllerVars, agent_move, turn_move_data,
                   at_turn_start, completed, fired_angle, fired_power,
                   move_history, outcome_history, last_call, next_uid,
                   post_shot, analysis, n_added, Untouched>>

\* controller.py line 129
set_angle ==
    /\ pc = "set_angle"
    /\ \/ /\ pc' = "set_power"
          /\ events' = Log("set_angle")
       \/ Raised
    /\ UNCHANGED <<current_angle, current_power, fired_angle, fired_power,
                   ActuationFrame>>

\* controller.py line 130
set_power ==
    /\ pc = "set_power"
    /\ \/ /\ pc' = "perform_move_actions"
          /\ events' = Log("set_power")
       \/ Raised
    /\ UNCHANGED <<current_angle, current_power, fired_angle, fired_power,
                   ActuationFrame>>

\* controller.py line 131
perform_move_actions ==
    /\ pc = "perform_move_actions"
    /\ \/ /\ pc' = "fire"
          /\ events' = Log("perform_move_actions")
       \/ Raised
    /\ UNCHANGED <<current_angle, current_power, fired_angle, fired_power,
                   ActuationFrame>>

\* mutant: the wait left out
fire_ThenCapture ==
    /\ pc = "fire"
    /\ \/ /\ current_angle' = turn_move_data.absolute_angle[1]
          /\ current_power' = turn_move_data.absolute_power[1]
          /\ fired_angle' = fired_angle + turn_move_data.angle_delta
          /\ fired_power' = fired_power + turn_move_data.power_delta
          /\ pc' = "post_shot"
          /\ events' = Log("fire")
       \/ /\ Raised
          /\ UNCHANGED <<current_angle, current_power, fired_angle, fired_power>>
    /\ UNCHANGED ActuationFrame

\* mutant: the running totals left as they were
fire_KeepsTotals ==
    /\ pc = "fire"
    /\ \/ /\ fired_angle' = fired_angle + turn_move_data.angle_delta
          /\ fired_power' = fired_power + turn_move_data.power_delta
          /\ pc' = "wait_for_turn_end"
          /\ events' = Log("fire")
          /\ UNCHANGED <<current_angle, current_power>>
       \/ /\ Raised
          /\ UNCHANGED <<current_angle, current_power, fired_angle, fired_power>>
    /\ UNCHANGED ActuationFrame

\* controller.py lines 132-136: fire, then the running totals take the values
\* computed at lines 115-116 (held in move_data since lines 119-120)
fire ==
    /\ pc = "fire"
    /\ \/ /\ current_angle' = turn_move_data.absolute_angle[1]
          /\ current_power' = turn_move_data.absolute_power[1]
          /\ fired_angle' = fired_angle + turn_move_data.angle_delta
          /\ fired_power' = fired_power + turn_move_data.power_delta
          /\ pc' = "wait_for_turn_end"
          /\ events' = Log("fire")
       \/ /\ Raised
          /\ UNCHANGED <<current_angle, current_power, fired_angle, fired_power>>
    /\ UNCHANGED ActuationFrame

\* controller.py lines 138, 154-158: a sleep
wait_for_turn_end ==
    /\ pc = "wait_for_turn_end"
    /\ pc' = "post_shot"
    /\ events' = Log("wait_for_turn_end")
    /\ UNCHANGED <<current_angle, current_power, fired_angle, fired_power,
                   ActuationFrame>>

\* controller.py lines 141-142: take_game_screenshot, save_debug_photo
capture_post_shot ==
    /\ pc = "post_shot"
    /\ \/ /\ post_shot' \in ScreenAfter
          /\ pc' = "analyze_move_outcome"
          /\ events' = Log("post_shot")
       \/ /\ Raised
          /\ UNCHANGED post_shot
    /\ UNCHANGED <<turn, controllerVars, agent_move, turn_move_data,
                   at_turn_start, completed, fired_angle, fired_power,
                   move_history, outcome_history, last_call, next_uid,
                   pre_shot, analysis, n_added, Untouched>>

\* mutant: a failed analysis recorded with the default outcome
analyze_shots_StoresOnError ==
    /\ pc = "analyze_move_outcome"
    /\ \E did \in AnalyzeMoveOutcome(pre_shot, post_shot, next_uid) :
           /\ analysis' = [done |-> TRUE] @@ did
           /\ IF did.raised
              THEN /\ Raised
                   /\ move_history' = Append(move_history, turn_move_data)
                   /\ outcome_history' =
                          Append(outcome_history,
                                 MoveOutcome(next_uid, FALSE, "unknown", None))
              ELSE /\ pc' = "add_move_result"
                   /\ events' = Log("analyze_move_outcome")
                   /\ UNCHANGED <<move_history, outcome_history>>
           /\ next_uid' = next_uid + 1
    /\ UNCHANGED <<turn, controllerVars, agent_move, turn_move_data,
                   at_turn_start, completed, fired_angle, fired_power,
                   last_call, pre_shot, post_shot, n_added, Untouched>>

\* controller.py line 145: a MoveOutcome, or the exception of the analysis
analyze_shots ==
    /\ pc = "analyze_move_outcome"
    /\ \E did \in AnalyzeMoveOutcome(pre_shot, post_shot, next_uid) :
           /\ analysis' = [done |-> TRUE] @@ did
           /\ IF did.raised
              THEN /\ Raised
                   /\ UNCHANGED next_uid
              ELSE /\ pc' = "add_move_result"
                   /\ events' = Log("analyze_move_outcome")
                   /\ next_uid' = next_uid + 1
    /\ UNCHANGED <<turn, controllerVars, agent_move, turn_move_data,
                   at_turn_start, completed, fired_angle, fired_power,
                   move_history, outcome_history, last_call, pre_shot,
                   post_shot, n_added, Untouched>>

\* controller.py lines 148-152: add_move_result, then back to line 26
store_move_result ==
    /\ pc = "add_move_result"
    /\ LET after == HistoriesAfterAdd(move_history, outcome_history,
                                      turn_move_data, analysis.outcome, max_history)
       IN /\ move_history' = after.moves
          /\ outcome_history' = after.outcomes
    /\ last_call' = [op |-> "add_move_result"]
    /\ n_added' = n_added + 1
    /\ completed' = <<turn_move_data.uid>>
    /\ pc' = "for"
    /\ events' = Log("add_move_result")
    /\ UNCHANGED <<turn, controllerVars, agent_move, turn_move_data,
                   at_turn_start, fired_angle, fired_power, next_uid,
                   analyzerVars, Untouched>>

\* lines 37-39: the error logged, on to the next iteration
except_continue ==
    /\ pc = "except"
    /\ completed' = <<0>>
    /\ pc' = "for"
    /\ events' = <<>>
    /\ LocalsDropped
    /\ UNCHANGED <<turn, controllerVars, agent_move, turn_move_data,
                   at_turn_start, fired_angle, fired_power, move_history,
                   outcome_history, last_call, next_uid, n_added, Untouched>>

RunNext ==
    \/ for_next
    \/ take_game_screenshot
    \/ get_context_for_agent
    \/ get_move
    \/ construct_MoveData
    \/ begin_turn
    \/ capture_pre_shot
    \/ set_angle
    \/ set_power
    \/ perform_move_actions
    \/ fire
    \/ wait_for_turn_end
    \/ capture_post_shot
    \/ analyze_shots
    \/ store_move_result
    \/ except_continue

SpecRun == RunInit /\ [][RunNext]_vars

-----------------------------------------------------------------------------
(* Properties of GameContextManager, checked under SpecStore. *)

\* the entries held, newest last, as (move uid, outcome uid) pairs
StoredUids ==
    [i \in 1..Len(move_history) |-> <<move_history[i].uid, outcome_history[i].uid>>]

\* the last call was get_context_string (the lists are as they were when it ran)
Rendered == last_call.op = "get_context_string"

\* C1: after N add_move_result calls on a manager with max_history = k that
\* started empty (constructed or cleared), the two lists hold exactly
\* min(N, k) entries, and these are the most recently added ones, oldest
\* surviving first.  The j-th object pair constructed has uid j, so the most
\* recently added Len ones are next_uid - Len .. next_uid - 1.
C1_LastAddsKept ==
    LET held == Min(n_added, max_history)
    IN /\ Len(move_history) = held
       /\ Len(outcome_history) = held
       /\ \A i \in 1..held :
              StoredUids[i] = <<next_uid - 1 - held + i, next_uid - 1 - held + i>>

\* C1's case: adds beyond capacity, with at least two entries evicted
C1_Witness ==
    /\ last_call.op = "add_move_result"
    /\ max_history >= 2
    /\ n_added >= max_history + 2

\* C2: whatever add_move_result, clear_history and get_context_string calls
\* were made, neither list is longer than max_history and the entries stand in
\* the order they were added in.
C2_BoundedInOrder ==
    /\ Len(move_history) <= max_history
    /\ Len(outcome_history) <= max_history
    /\ \A i, j \in 1..Len(move_history) :
           i < j => /\ move_history[i].uid < move_history[j].uid
                    /\ outcome_history[i].uid < outcome_history[j].uid

\* C2's case: a full store after a clear, evictions and a render
C2_Witness ==
    /\ Rendered
    /\ max_history >= 2
    /\ Len(move_history) = max_history
    /\ n_added > max_history
    /\ next_uid - 1 > n_added

\* C3: get_context_string called after clear_history (no add between them)
\* returns exactly the sentinel, whatever the store held before the clear.
C3_ClearThenRender ==
    (Rendered /\ size_before_clear >= 0) => last_call.context = Sentinel

\* C3's case: a render after the clear of a full store of three or more
C3_Witness ==
    /\ Rendered
    /\ max_history >= 3
    /\ size_before_clear = max_history

\* C4 as claimed: on a store that has received no add get_context_string
\* returns the sentinel; on a store that has received exactly one add it
\* returns the header followed by exactly one move/outcome line.
C4_Claimed ==
    Rendered =>
        /\ n_added = 0 => last_call.context = Sentinel
        /\ n_added = 1 =>
               /\ Len(last_call.context_lines) = 1
               /\ last_call.context = Header \o last_call.context_lines[1].text

\* C4 amended: the same, for a manager whose max_history is at least 1.
C4_OneAddOneLine ==
    Rendered =>
        /\ n_added = 0 => last_call.context = Sentinel
        /\ (n_added = 1 /\ max_history >= 1) =>
               /\ Len(last_call.context_lines) = 1
               /\ last_call.context = Header \o last_call.context_lines[1].text

\* C4's case: a render after exactly one add
C4_Witness ==
    /\ Rendered
    /\ n_added = 1
    /\ max_history >= 1
    /\ Len(last_call.context_lines) = 1

\* C5: for a store of n > 0 entries get_context_string renders exactly
\* min(3, n) lines under the header, line j for the j-th most recently added
\* entry.
C5_RecentFirst ==
    (Rendered /\ Len(outcome_history) > 0) =>
        LET n == Len(outcome_history)
            lines == last_call.context_lines
        IN /\ Len(lines) = Min(3, n)
           /\ \A j \in 1..Len(lines) :
                  /\ lines[j].move_uid = move_history[n - j + 1].uid
                  /\ lines[j].outcome_uid = outcome_history[n - j + 1].uid
           /\ last_call.context =
                  Header \o JoinLines([j \in 1..Len(lines) |-> lines[j].text])

\* C5's case: a render of a store of more than three entries
C5_Witness ==
    /\ Rendered
    /\ Len(outcome_history) > 3
    /\ Len(last_call.context_lines) = 3

\* the move has absolute values: the attributes exist and are set
AbsoluteAvailable(move) ==
    /\ "absolute_angle" \in DOMAIN move
    /\ "absolute_power" \in DOMAIN move
    /\ move.absolute_angle # None
    /\ move.absolute_power # None

\* C6: every rendered line describes its move in the absolute form when the
\* move has absolute values, and in the delta-only form when it has not.
C6_Claimed ==
    Rendered =>
        \A j \in 1..Len(last_call.context_lines) :
            LET move == move_history[Len(move_history) - j + 1]
                desc == last_call.context_lines[j].move_desc
            IN IF AbsoluteAvailable(move)
               THEN desc = AbsoluteDesc(move) \o ActionsSuffix(move)
               ELSE desc = DeltaDesc(move) \o ActionsSuffix(move)

\* C7: every rendered line's label is "HIT" exactly when its outcome has
\* hit_detected, and "MISS (<distance_result>)" otherwise.
C7_ResultLabel ==
    Rendered =>
        \A j \in 1..Len(last_call.context_lines) :
            LET outcome == outcome_history[Len(outcome_history) - j + 1]
                result == last_call.context_lines[j].result
            IN /\ result = "HIT" <=> outcome.hit_detected
               /\ ~outcome.hit_detected =>
                      result = "MISS (" \o outcome.distance_result \o ")"

\* C7's case: a render with a line of a hit whose distance_result is not "hit"
\* and a line of a miss
C7_Witness ==
    /\ Rendered
    /\ \E i, j \in 1..Len(last_call.context_lines) :
           LET n == Len(outcome_history)
           IN /\ outcome_history[n - i + 1].hit_detected
              /\ outcome_history[n - i + 1].distance_result # "hit"
              /\ ~outcome_history[n - j + 1].hit_detected

-----------------------------------------------------------------------------
(* Properties of MoveAnalyzer, checked under SpecAnalyzer. *)

\* the contour area of the largest changed region of (pre_shot, post_shot),
\* -1 when nothing changed by more than the threshold
LargestChangedArea ==
    LET contours == Threshold(AbsDiff(pre_shot, post_shot), ImpactThreshold)
    IN IF contours = {} THEN -1
       ELSE contourArea(CHOOSE c \in LargestContours(contours) : TRUE)

\* the call ran and returned an outcome
Returned == analysis.done /\ ~analysis.raised

\* the returned outcome reports no impact
NoImpact ==
    /\ analysis.outcome.impact_location = None
    /\ analysis.outcome.distance_result = "unknown"

\* C8: analyze_move_outcome on identical frames returns distance_result
\* "unknown", no impact location and hit_detected false.
C8_IdenticalFrames ==
    (Returned /\ pre_shot = post_shot) =>
        /\ analysis.outcome.distance_result = "unknown"
        /\ analysis.outcome.impact_location = None
        /\ analysis.outcome.hit_detected = FALSE

\* C8's case: two identical frames that show scenery and two blobs
C8_Witness ==
    /\ Returned
    /\ pre_shot = post_shot
    /\ Cardinality(pre_shot.blobs) >= 3

\* C9 as claimed: a largest changed region of area exactly 100 does not
\* qualify (no impact location, outcome unknown), one of area 101 does.
C9_Claimed ==
    Returned =>
        /\ LargestChangedArea = 100 => NoImpact
        /\ LargestChangedArea = 101 => analysis.outcome.impact_location # None

\* C9 amended: a largest changed region of contour area 99 does not qualify
\* (no impact location, outcome unknown); one of area exactly 100 qualifies,
\* and so does one of area 101.
C9_AreaBoundary ==
    Returned =>
        /\ LargestChangedArea = 99 => NoImpact
        /\ LargestChangedArea = 100 =>
               /\ analysis.outcome.impact_location # None
               /\ analysis.outcome.distance_result # "unknown"
        /\ LargestChangedArea = 101 =>
               /\ analysis.outcome.impact_location # None
               /\ analysis.outcome.distance_result # "unknown"

\* C9's case: the largest changed region has area exactly 100 and an impact
\* is reported
C9_Witness ==
    /\ Returned
    /\ LargestChangedArea = 100
    /\ analysis.outcome.impact_location # None

\* what C10 says of an impact at impact_x when the band is centred on an
\* opponent x of num / den (den > 0)
BandRule(impact_x, num, den) ==
    IF den * impact_x > num + den * 50
    THEN /\ analysis.outcome.distance_result = "overshoot"
         /\ ~analysis.hit_checked
    ELSE IF den * impact_x < num - den * 50
    THEN /\ analysis.outcome.distance_result = "undershoot"
         /\ ~analysis.hit_checked
    ELSE /\ analysis.hit_checked
         /\ analysis.hit_reported =>
                /\ analysis.outcome.distance_result = "hit"
                /\ analysis.outcome.hit_detected
         /\ ~analysis.hit_reported =>
                /\ analysis.outcome.distance_result = "near_miss"
                /\ ~analysis.outcome.hit_detected

\* C10 as claimed: the band is centred on 0.85 x frame width.
C10_Claimed ==
    (Returned /\ analysis.outcome.impact_location # None) =>
        BandRule(analysis.outcome.impact_location[1], 85 * pre_shot.width, 100)

\* C10 amended: the band is centred on int(0.85 x frame width), the product
\* truncated to an integer.  Right of it by more than 50 is overshoot, left of
\* it by more than 50 is undershoot, and only otherwise (the band's ends
\* included) the hit classifier is consulted: hit with hit_detected if it
\* reports a hit, near_miss if not.
C10_ToleranceBand ==
    (Returned /\ analysis.outcome.impact_location # None) =>
        BandRule(analysis.outcome.impact_location[1],
                 (85 * pre_shot.width) \div 100, 1)

\* C10's case: an impact exactly 50 left of the truncated opponent x in a
\* frame whose width is no multiple of 20, sent to the hit classifier
C10_Witness ==
    /\ Returned
    /\ analysis.outcome.impact_location # None
    /\ (85 * pre_shot.width) % 100 # 0
    /\ analysis.outcome.impact_location[1] = (85 * pre_shot.width) \div 100 - 50
    /\ analysis.hit_checked

\* the window of _check_hit_near_opponent around the opponent estimate of a
\* frame: <<x1, x2, y1, y2>>, columns [x1, x2) and rows [y1, y2)
OpponentWindow(frame) ==
    << Max(0, OpponentX(frame.width) - 80),
       Min(frame.width, OpponentX(frame.width) + 80),
       Max(0, OpponentY(frame.height) - 80),
       Min(frame.height, OpponentY(frame.height) + 80) >>

\* every difference between the two frames lies inside the opponent window,
\* and more than 300 pixels there changed by more than 30
ChangeOnlyNearOpponent ==
    LET win == OpponentWindow(pre_shot)
        diff == AbsDiff(pre_shot, post_shot)
    IN /\ SameShape(pre_shot, post_shot)
       /\ \A b \in diff : /\ win[1] <= b.x /\ b.x + b.w <= win[2]
                          /\ win[3] <= b.y /\ b.y + b.h <= win[4]
       /\ countNonZero({ b \in diff : b.v > 30 }, win[1], win[2], win[3], win[4]) > 300

\* every region that can be taken as the largest one changed by more than 40
\* has contour area of at least 100 and its centroid within 50 of the opponent x
LargestRegionInBand ==
    LET contours == Threshold(AbsDiff(pre_shot, post_shot), ImpactThreshold)
    IN /\ contours # {}
       /\ \A c \in LargestContours(contours) :
              /\ contourArea(c) >= 100
              /\ Centroid(c)[1] >= OpponentX(pre_shot.width) - 50
              /\ Centroid(c)[1] <= OpponentX(pre_shot.width) + 50

\* C11 as claimed: a pair whose only difference lies fully inside the 80 px
\* window around the opponent estimate and totals more than 300 changed
\* pixels there is analysed as a hit.
C11_Claimed ==
    (Returned /\ ChangeOnlyNearOpponent) =>
        /\ analysis.outcome.hit_detected
        /\ analysis.outcome.distance_result = "hit"

\* C11 amended: such a pair is analysed as a hit provided its largest region
\* changed by more than 40 has contour area >= 100 and a centroid x within
\* 50 of int(0.85 w).
C11_HitNearOpponent ==
    (Returned /\ ChangeOnlyNearOpponent /\ LargestRegionInBand) =>
        /\ analysis.outcome.hit_detected
        /\ analysis.outcome.distance_result = "hit"

\* C11's case: a small explosion in the band and a faint change beside it,
\* together more than 300 changed pixels in the window, analysed as a hit
C11_Witness ==
    /\ Returned
    /\ ChangeOnlyNearOpponent
    /\ LargestRegionInBand
    /\ \E b \in AbsDiff(pre_shot, post_shot) : b.v <= ImpactThreshold
    /\ analysis.outcome.hit_detected

\* C12: analyze_move_outcome on frames of different dimensions fails with an
\* error: the call raises to its caller and yields no MoveOutcome.
C12_MismatchRaises ==
    (analysis.done /\ ~SameShape(pre_shot, post_shot)) =>
        /\ analysis.raised
        /\ "outcome" \notin DOMAIN analysis

\* C12's case: a call on frames of different widths has run
C12_Witness ==
    /\ analysis.done
    /\ pre_shot.width # post_shot.width
    /\ analysis.raised

ClampedWindow(frame, pos) ==
    [left   |-> Min(Max(pos[1] - 80, 0), frame.width),
     right  |-> Max(Min(pos[1] + 80, frame.width), 0),
     top    |-> Min(Max(pos[2] - 80, 0), frame.height),
     bottom |-> Max(Min(pos[2] + 80, frame.height), 0)]

\* pixels of the clamped window whose difference exceeds 30
ChangedInWindow(win) ==
    countNonZero({ b \in AbsDiff(pre_shot, post_shot) : b.v > 30 },
                 win.left, win.right, win.top, win.bottom)

\* C18 as claimed: for every frame pair and every opponent position the hit
\* check returns without raising, false when the window of 80 px around the
\* position clamped to the frame has zero area, and otherwise true exactly
\* when more than 300 pixels of that window differ by more than 30.
C18_Claimed ==
    hit_check.done =>
        LET win == ClampedWindow(pre_shot, check_pos)
        IN /\ ~hit_check.raised
           /\ IF win.right <= win.left \/ win.bottom <= win.top
              THEN ~hit_check.hit
              ELSE hit_check.hit <=> ChangedInWindow(win) > 300

\* C17 as claimed: the turn gate reports the boundary only after the motion
\* has stayed below the threshold for stable_frames consecutive samples.
C17_Claimed ==
    (gate_call.op = "is_turn_finished" /\ gate_call.returned) =>
        quiet_run >= detector_args.stable_frames

\* C17 amended: is_turn_finished reports the boundary on every call, whatever
\* the motion between the samples and whatever threshold and stable_frames
\* the detector was constructed with.
C17_AlwaysFinished ==
    gate_call.op = "is_turn_finished" => gate_call.returned

\* C17's case: the boundary reported on a sample that moved by more than the
\* threshold against the one before it
C17_Witness ==
    /\ gate_call.op = "is_turn_finished"
    /\ gate_call.returned
    /\ Len(samples) >= 2
    /\ Motion(samples[Len(samples) - 1], samples[Len(samples)])
           >= detector_args.motion_threshold
    /\ quiet_run = 0

-----------------------------------------------------------------------------
(* Properties of the run loop and the controller, checked under SpecRun. *)

\* the calls of an iteration that runs to its end
TurnEvents ==
    << "take_game_screenshot", "get_context_string", "get_move", "MoveData",
       "pre_shot", "set_angle", "set_power", "perform_move_actions", "fire",
       "wait_for_turn_end", "post_shot", "analyze_move_outcome",
       "add_move_result" >>

\* the previous iteration ran to its end
TurnCompleted == completed # <<>> /\ completed # <<0>>

\* the previous iteration ended in the except clause
TurnFailed == completed = <<0>>

Last(seq) == seq[Len(seq)]

\* fire() has returned in this iteration
Fired == \E i \in DOMAIN events : events[i] = "fire"

\* the stored (move, outcome) pairs, oldest first
StoredPairs ==
    [i \in 1..Len(move_history) |-> <<move_history[i], outcome_history[i]>>]

\* C13: a turn in which a step before the add fails adds no entry: the store
\* after the failed turn holds what it held when the turn began.
C13_FailedTurnAddsNothing ==
    (pc \in {"except", "crashed"} \/ (pc = "for" /\ TurnFailed)) =>
        /\ move_history = at_turn_start.moves
        /\ outcome_history = at_turn_start.outcomes

\* C13's case: the analysis of a later turn failed, with entries stored
C13_Witness ==
    /\ pc = "except"
    /\ analysis.done
    /\ analysis.raised
    /\ Len(move_history) >= 2

\* C14 as claimed: a failure anywhere in a turn, the capture for the agent
\* and the decision call included, is caught at the turn boundary and the
\* loop goes on: no failure of a step ends run().
C14_Claimed == pc # "crashed"

\* C15: the calls of a completed turn happen in the order of TurnEvents, each
\* once; the outcome added is the analysis of the two frames captured in that
\* turn, paired with that turn's move; and the context rendered for the next
\* decision shows the store after that add.
C15_TurnOrder ==
    /\ \E n \in 0..Len(TurnEvents) :
           \/ events = SubSeq(TurnEvents, 1, n)
           \/ events = Append(SubSeq(TurnEvents, 1, n), "raise")
    /\ (pc = "for" /\ TurnCompleted) =>
           /\ events = TurnEvents
           /\ \E did \in AnalyzeMoveOutcome(pre_shot, post_shot, analysis.outcome.uid) :
                  ~did.raised /\ did.outcome = Last(outcome_history)
           /\ Last(move_history) = turn_move_data
    /\ (pc = "get_move" /\ TurnCompleted) =>
           /\ last_call.op = "get_context_string"
           /\ last_call.context = ContextString(move_history, outcome_history)
           /\ Last(move_history).uid = completed[1]

\* C15's case: a second turn has run to its end
C15_Witness ==
    /\ pc = "for"
    /\ TurnCompleted
    /\ turn >= 2
    /\ Len(events) = 13
    /\ Len(move_history) >= 2

\* C16: no stored entry changes after its add: add_move_result keeps the
\* pairs it found, but for the oldest when it evicts, and appends one; every
\* other step, get_context_string and the steps of later turns included,
\* leaves the stored pairs as they are.
C16_EntriesKept ==
    [][IF pc = "add_move_result"
       THEN \E kept \in {StoredPairs}
                        \cup (IF StoredPairs = <<>> THEN {} ELSE {Tail(StoredPairs)}) :
                /\ Len(StoredPairs') = Len(kept) + 1
                /\ SubSeq(StoredPairs', 1, Len(kept)) = kept
       ELSE StoredPairs' = StoredPairs]_vars

\* C16's case: the oldest entry was evicted and the five kept are those of
\* the turns since
C16_Witness ==
    /\ pc = "for"
    /\ n_added = 6
    /\ Len(move_history) = 5
    /\ move_history[1].uid > 1

\* C20: current_angle is 60 plus the angle_delta of the turns whose fire()
\* returned, current_power 20 plus their power_delta; a turn that fails in
\* the actuation leaves both as they were, with move_count one higher; and
\* an added entry carries the running totals as they are at the add.
C20_RunningTotals ==
    /\ current_angle = 60 + fired_angle
    /\ current_power = 20 + fired_power
    /\ (pc = "except" /\ ~Fired) =>
           /\ current_angle = at_turn_start.current_angle
           /\ current_power = at_turn_start.current_power
           /\ move_count = at_turn_start.move_count + 1
    /\ (pc = "for" /\ TurnCompleted) =>
           /\ Last(move_history).absolute_angle = Some(current_angle)
           /\ Last(move_history).absolute_power = Some(current_power)

\* C20's case: after turns that fired, a turn fails between the capture and
\* fire()
C20_Witness ==
    /\ pc = "except"
    /\ ~Fired
    /\ Last(events) = "raise"
    /\ Len(events) >= 6
    /\ fired_angle # 0
    /\ fired_power # 0
    /\ move_count >= 3

-----------------------------------------------------------------------------
(* Properties of TurnDetector.is_our_turn and the deprecated wait. *)

\* C21: is_our_turn returns True on every frame of every call sequence,
\* after a reset as well, so wait_for_turn_end_deprecated stays in its first
\* polling loop: it never gets to the step after it and never returns.
C21_FirstLoopNeverExits ==
    /\ gate_call.op = "is_our_turn" => gate_call.returned
    /\ wait_pc \in {"idle", "our_turn_ends"}

\* C21's case: after a reset the method has polled several times, the last
\* frame unlike the one before it, and is still in its first loop
C21_Witness ==
    /\ was_reset
    /\ wait_pc = "our_turn_ends"
    /\ gate_call.op = "is_our_turn"
    /\ gate_call.returned
    /\ Len(samples) >= 3
    /\ samples[Len(samples)] # samples[Len(samples) - 1]
    /\ samples[Len(samples) - 1] # samples[Len(samples) - 2]

=============================================================================
